---- MODULE Spec2Model ----
\* A model of matlab/caffe/matcaffe.cpp: the mex entry point that dispatches
\* string-named commands to handlers wrapping a caffe::Net, and the copy loops
\* that move blobs between the engine's layout and the host's arrays.
EXTENDS Integers, Sequences, FiniteSets, TLC

\* ---------------------------------------------------------------- bounds
\* The largest number of right-hand arguments of a call (command name included).
MaxArgs == 4
\* random() is drawn from 0..MaxKey.
MaxKey == 1
\* Device ids passed to set_device are drawn from 0..MaxDevice.
MaxDevice == 1
\* do_forward: every dimension of a blob or of a host array is in 1..MaxDim,
\* and the network has 1..MaxBlobs input blobs and as many output blobs.
MaxDim == 2
MaxBlobs == 2
\* do_get_weights: a network of 1..MaxLayers layers with 0..MaxLayerBlobs
\* parameter blobs each.
MaxLayers == 3
MaxLayerBlobs == 2
\* do_get_gradients: the engine returns 0..MaxOutBlobs blobs of num in
\* 1..MaxBatch; the caller selects 1..MaxChannels channels; width, height and
\* channels are in 1..MaxGradDim or are BigDim.
MaxOutBlobs == 3
MaxBatch == 2
MaxChannels == 4
MaxGradDim == 2
BigDim == 1024

\* ------------------------------------------------------------- constants
\* static int init_key = -2;
NoInitKey == -2

NULL == "NULL"
NoErr == "none"
NoRet == "none"

VARIABLES
  \* the file's statics and the engine's global settings
  net_,        \* NULL, or "Net" when a network is loaded
  init_key,
  mode,        \* Caffe::mode()
  phase,       \* Caffe::phase()
  device,      \* the device chosen by Caffe::SetDevice
  alive,       \* FALSE once a CHECK / LOG(FATAL) / null dereference ended the process
  \* the most recent call of mexFunction
  cmdIn,       \* prhs[0] as a string ("" when nrhs = 0)
  nrhsIn,      \* nrhs
  invoked,     \* the handlers called by the dispatch loop, each with its nrhs
  err,         \* the message given to mexErrMsgTxt, or NoErr
  ret,         \* plhs[0], or NoRet
  engine,      \* what the handler did with the network during the call
  called,      \* FALSE until mexFunction is called for the first time
  \* history: an init with two arguments completed and no reset came after it
  loaded,
  \* one run of do_forward
  fPc,         \* "idle", "inputs" (first loop), "outputs" (second loop), "abort"
  fNIn,        \* input_blobs.size()
  fNOut,       \* output_blobs.size()
  fI,          \* the loop index i
  fBlob,       \* the blob of the iteration just executed: its shape and its data
  fHost,       \* the host array of that iteration: its dims and its data
  \* one run of do_get_weights
  wPc,             \* "idle", "step1", "step2", "step3", "done", "crash"
  layers,          \* net_->layers() with net_->layer_names(): name and number of blobs
  wI,              \* the loop index i
  num_layers,
  prev_layer_name,
  mx_layers,       \* the struct array: records with layer_names and weights
  mx_layer_index,
  wDropped,        \* the blobs handed to mxSetCell with a NULL cell array
  \* the copy loop of do_get_gradients, after CalcGradientsPrefilled returned 0
  gPc,             \* "idle", "loop", "done", "abort"
  output_blobs,    \* the shapes of the blobs the engine returned
  batch_size,
  nSel,            \* selected_channels_i.size()
  channels_left,
  gI,              \* the loop index i
  mx_out,          \* the number of elements of the output array, NULL before it exists
  data_copied,
  data_ptr,        \* as an offset from mxGetPr(mx_out)
  gCopies          \* the caffe_copy calls made: destination, length, channels_left

dispVars == <<net_, init_key, mode, phase, device, alive,
              cmdIn, nrhsIn, invoked, err, ret, engine, called, loaded>>

fwdVars == <<fPc, fNIn, fNOut, fI, fBlob, fHost>>

wtsVars == <<wPc, layers, wI, num_layers, prev_layer_name, mx_layers,
             mx_layer_index, wDropped>>

gradVars == <<gPc, output_blobs, batch_size, nSel, channels_left, gI, mx_out,
              data_copied, data_ptr, gCopies>>

vars == <<dispVars, fwdVars, wtsVars, gradVars>>

\* ------------------------------------------------------------- registry
handlers == <<
  [cmd |-> "forward",         func |-> "forward"],
  [cmd |-> "backward",        func |-> "backward"],
  [cmd |-> "get_gradients",   func |-> "get_gradients"],
  [cmd |-> "get_features",    func |-> "get_features"],
  [cmd |-> "init",            func |-> "init"],
  [cmd |-> "is_initialized",  func |-> "is_initialized"],
  [cmd |-> "set_mode_cpu",    func |-> "set_mode_cpu"],
  [cmd |-> "set_mode_gpu",    func |-> "set_mode_gpu"],
  [cmd |-> "set_phase_train", func |-> "set_phase_train"],
  [cmd |-> "set_phase_test",  func |-> "set_phase_test"],
  [cmd |-> "set_device",      func |-> "set_device"],
  [cmd |-> "get_weights",     func |-> "get_weights"],
  [cmd |-> "get_blobs",       func |-> "get_blobs"],
  [cmd |-> "get_init_key",    func |-> "get_init_key"],
  [cmd |-> "reset",           func |-> "reset"],
  [cmd |-> "read_mean",       func |-> "read_mean"],
  [cmd |-> "END",             func |-> NULL] >>

\* The names a caller may pass: the registered ones, the sentinel, and names
\* that are in no entry (one differing only in case, one the empty string's
\* neighbour).
RegisteredNames == { handlers[i].cmd : i \in 1..(Len(handlers) - 1) }
CommandNames == RegisteredNames \cup {"END", "Forward", "bogus"}

\* ------------------------------------------------- outcomes of a handler
\* mexErrMsgTxt(msg): control returns to the host, nothing after it runs.
mexErrMsgTxt(msg, ops) ==
  /\ err' = msg
  /\ ret' = NoRet
  /\ engine' = ops
  /\ UNCHANGED <<net_, init_key, mode, phase, device, alive>>

\* A failed CHECK, LOG(FATAL) or a dereference of the empty net_ pointer ends
\* the process.
Abort(ops) ==
  /\ alive' = FALSE
  /\ err' = "abort"
  /\ ret' = NoRet
  /\ engine' = ops
  /\ UNCHANGED <<net_, init_key, mode, phase, device>>

\* The handler returns normally, leaving the statics alone.
Return(value, ops) ==
  /\ err' = NoErr
  /\ ret' = value
  /\ engine' = ops
  /\ UNCHANGED <<net_, init_key, mode, phase, device, alive>>

\* --------------------------------------------------------------- do_* bodies
do_forward ==
  IF net_ = NULL
  THEN Abort({})
  ELSE \E inputOk \in BOOLEAN :
         IF ~inputOk
         THEN Abort({"input_blobs"})
         ELSE Return("cell", {"input_blobs", "copy_input", "ForwardPrefilled"})

do_backward ==
  IF net_ = NULL
  THEN Abort({})
  ELSE \E inputOk \in BOOLEAN :
         IF ~inputOk
         THEN Abort({"output_blobs", "input_blobs"})
         ELSE Return("cell", {"output_blobs", "input_blobs", "copy_diff", "Backward"})

do_get_gradients_guard_off ==
  FALSE

do_get_gradients_guard ==
  net_ = NULL

do_get_gradients ==
  IF do_get_gradients_guard
  THEN mexErrMsgTxt("Initialize caffe first by calling matcaffe_init.", {})
  ELSE \E outcome \in {"negative", "empty", "cells", "width", "height", "channels",
                         "num", "engine", "ok"} :
         CASE outcome = "negative" ->
                mexErrMsgTxt("The channel ids must be greater than zero!", {})
           [] outcome = "empty" ->
                mexErrMsgTxt("Channel list must not be empty.", {})
           [] outcome = "cells" ->
                mexErrMsgTxt("The input has to be a cell array usually containing a single height x width x channels x batch size image!",
                             {"input_blobs"})
           [] outcome = "width" ->
                mexErrMsgTxt("The height of the input images is wrong!", {"input_blobs"})
           [] outcome = "height" ->
                mexErrMsgTxt("The width of the input images is wrong!", {"input_blobs"})
           [] outcome = "channels" ->
                mexErrMsgTxt("The channel size of the input images is wrong!",
                             {"input_blobs"})
           [] outcome = "num" ->
                mexErrMsgTxt("The batch size of the input images is wrong!",
                             {"input_blobs"})
           [] outcome = "engine" ->
                mexErrMsgTxt("Error while calculating. Probably a layer with that name does not exist.",
                             {"input_blobs", "copy_input", "top_vecs", "CalcGradientsPrefilled"})
           [] outcome = "ok" ->
                Return("array", {"input_blobs", "copy_input", "top_vecs", "CalcGradientsPrefilled"})

do_get_features_guard ==
  net_ = NULL

do_get_features ==
  IF do_get_features_guard
  THEN mexErrMsgTxt("Initialize caffe first by calling matcaffe_init.", {})
  ELSE \E outcome \in {"cells", "width", "height", "channels", "num", "engine", "ok"} :
         CASE outcome = "cells" ->
                mexErrMsgTxt("The input has to be a cell array usually containing a single height x width x channels x batch size image!",
                             {"input_blobs"})
           [] outcome = "width" ->
                mexErrMsgTxt("The height of the input images is wrong!", {"input_blobs"})
           [] outcome = "height" ->
                mexErrMsgTxt("The width of the input images is wrong!", {"input_blobs"})
           [] outcome = "channels" ->
                mexErrMsgTxt("The channel size of the input images is wrong!",
                             {"input_blobs"})
           [] outcome = "num" ->
                mexErrMsgTxt("The batch size of the input images is wrong!",
                             {"input_blobs"})
           [] outcome = "engine" ->
                mexErrMsgTxt("Error while calculating. Probably a layer with that name does not exist.",
                             {"input_blobs", "copy_input", "GetFeaturesPrefilled"})
           [] outcome = "ok" ->
                Return("cell", {"input_blobs", "copy_input", "GetFeaturesPrefilled"})

do_get_blobs ==
  IF net_ = NULL THEN Abort({}) ELSE Return("struct", {"blobs", "blob_names"})

do_get_weights ==
  IF net_ = NULL THEN Abort({}) ELSE Return("struct", {"layers", "layer_names"})

\* ------------------------------------------------------------------ handlers
\* Each handler takes the nlhs and nrhs it is called with (nrhs no longer
\* counts the command name).
get_blobs(nlhs, nrhs) == do_get_blobs

get_weights(nlhs, nrhs) == do_get_weights

set_mode_cpu(nlhs, nrhs) ==
  /\ mode' = "CPU"
  /\ err' = NoErr /\ ret' = NoRet /\ engine' = {}
  /\ UNCHANGED <<net_, init_key, phase, device, alive>>

set_mode_gpu(nlhs, nrhs) ==
  /\ mode' = "GPU"
  /\ err' = NoErr /\ ret' = NoRet /\ engine' = {}
  /\ UNCHANGED <<net_, init_key, phase, device, alive>>

set_phase_train(nlhs, nrhs) ==
  /\ phase' = "TRAIN"
  /\ err' = NoErr /\ ret' = NoRet /\ engine' = {}
  /\ UNCHANGED <<net_, init_key, mode, device, alive>>

set_phase_test(nlhs, nrhs) ==
  /\ phase' = "TEST"
  /\ err' = NoErr /\ ret' = NoRet /\ engine' = {}
  /\ UNCHANGED <<net_, init_key, mode, device, alive>>

set_device_arity(nrhs) == nrhs # 1

set_device(nlhs, nrhs) ==
  IF set_device_arity(nrhs)
  THEN mexErrMsgTxt("Wrong number of arguments", {})
  ELSE \E device_id \in 0..MaxDevice :
         /\ device' = device_id
         /\ err' = NoErr /\ ret' = NoRet /\ engine' = {"SetDevice"}
         /\ UNCHANGED <<net_, init_key, mode, phase, alive>>

get_init_key(nlhs, nrhs) == Return(init_key, {})

init_arity_atleast(nrhs) == nrhs < 2

init_arity(nrhs) == nrhs # 2

init(nlhs, nrhs) ==
  IF init_arity(nrhs)
  THEN mexErrMsgTxt("Wrong number of arguments", {})
  ELSE \E filesOk \in BOOLEAN :
         IF ~filesOk
         THEN \* the engine's CHECKs on the two files fail, in the constructor
              \* or, with net_ already set, in CopyTrainedLayersFrom
              /\ alive' = FALSE
              /\ net_' \in {net_, "Net"}
              /\ err' = "abort" /\ ret' = NoRet /\ engine' = {"Net"}
              /\ UNCHANGED <<init_key, mode, phase, device>>
         ELSE \E key \in 0..MaxKey :
                /\ net_' = "Net"
                /\ init_key' = key
                /\ err' = NoErr
                /\ ret' = IF nlhs = 1 THEN key ELSE NoRet
                /\ engine' = {"Net", "CopyTrainedLayersFrom"}
                /\ UNCHANGED <<mode, phase, device, alive>>

\* A reset that forgets the key and keeps the network.
reset_keepnet(nlhs, nrhs) ==
  IF net_ # NULL
  THEN /\ init_key' = NoInitKey
       /\ err' = NoErr /\ ret' = NoRet /\ engine' = {}
       /\ UNCHANGED <<net_, mode, phase, device, alive>>
  ELSE Return(NoRet, {})

reset(nlhs, nrhs) ==
  IF net_ # NULL
  THEN /\ net_' = NULL
       /\ init_key' = NoInitKey
       /\ err' = NoErr /\ ret' = NoRet /\ engine' = {}
       /\ UNCHANGED <<mode, phase, device, alive>>
  ELSE Return(NoRet, {})

forward_arity(nrhs) == nrhs # 1

forward(nlhs, nrhs) ==
  IF forward_arity(nrhs)
  THEN mexErrMsgTxt("Wrong number of arguments", {})
  ELSE do_forward

backward_arity(nrhs) == nrhs # 1

backward(nlhs, nrhs) ==
  IF backward_arity(nrhs)
  THEN mexErrMsgTxt("Wrong number of arguments", {})
  ELSE do_backward

get_gradients_arity(nrhs) == nrhs # 3

get_gradients(nlhs, nrhs) ==
  IF get_gradients_arity(nrhs)
  THEN mexErrMsgTxt("Wrong number of arguments", {})
  ELSE do_get_gradients

get_features_arity(nrhs) == nrhs # 2

get_features(nlhs, nrhs) ==
  IF get_features_arity(nrhs)
  THEN mexErrMsgTxt("Wrong number of arguments", {})
  ELSE do_get_features

is_initialized(nlhs, nrhs) ==
  IF net_ = NULL THEN Return(0, {}) ELSE Return(1, {})

read_mean(nlhs, nrhs) ==
  IF nrhs # 1
  THEN mexErrMsgTxt("Usage: caffe('read_mean', 'path_to_binary_mean_file'", {})
  ELSE \E result \in BOOLEAN :
         IF ~result
         THEN mexErrMsgTxt("Couldn't read the file", {})
         ELSE Return("array", {})

\* handlers[i].func(nlhs, plhs, nrhs, prhs)
Call(func, nlhs, nrhs) ==
  \/ func = "forward"         /\ forward(nlhs, nrhs)
  \/ func = "backward"        /\ backward(nlhs, nrhs)
  \/ func = "get_gradients"   /\ get_gradients(nlhs, nrhs)
  \/ func = "get_features"    /\ get_features(nlhs, nrhs)
  \/ func = "init"            /\ init(nlhs, nrhs)
  \/ func = "is_initialized"  /\ is_initialized(nlhs, nrhs)
  \/ func = "set_mode_cpu"    /\ set_mode_cpu(nlhs, nrhs)
  \/ func = "set_mode_gpu"    /\ set_mode_gpu(nlhs, nrhs)
  \/ func = "set_phase_train" /\ set_phase_train(nlhs, nrhs)
  \/ func = "set_phase_test"  /\ set_phase_test(nlhs, nrhs)
  \/ func = "set_device"      /\ set_device(nlhs, nrhs)
  \/ func = "get_weights"     /\ get_weights(nlhs, nrhs)
  \/ func = "get_blobs"       /\ get_blobs(nlhs, nrhs)
  \/ func = "get_init_key"    /\ get_init_key(nlhs, nrhs)
  \/ func = "reset"           /\ reset(nlhs, nrhs)
  \/ func = "read_mean"       /\ read_mean(nlhs, nrhs)

\* ------------------------------------------------------------ entry point
\* The dispatch loop: the entries are tried in order until the one whose func
\* is NULL; the first whose cmd compares equal is called with nrhs-1 and the
\* loop breaks. The result is the list of calls the loop makes.
HandlerArgs_keep(nrhs) == nrhs

HandlerArgs(nrhs) == nrhs - 1

\* A dispatch loop that compares the names without regard to case.
RECURSIVE Dispatch_nocase(_, _, _)
Dispatch_nocase(i, cmd, nrhs) ==
  IF handlers[i].func = NULL
  THEN <<>>
  ELSE IF handlers[i].cmd = (IF cmd = "Forward" THEN "forward" ELSE cmd)
       THEN <<[func |-> handlers[i].func, nrhs |-> HandlerArgs(nrhs)]>>
       ELSE Dispatch_nocase(i + 1, cmd, nrhs)

RECURSIVE Dispatch(_, _, _)
Dispatch(i, cmd, nrhs) ==
  IF handlers[i].func = NULL
  THEN <<>>
  ELSE IF handlers[i].cmd = cmd
       THEN <<[func |-> handlers[i].func, nrhs |-> HandlerArgs(nrhs)]>>
       ELSE Dispatch(i + 1, cmd, nrhs)

\* The history the is_initialized claim is stated against: set by an init that
\* is given two arguments and returns, cleared by a reset.
LoadedAfter(cmd, nrhs) ==
  IF cmd = "init" /\ nrhs - 1 = 2 /\ alive'
  THEN TRUE
  ELSE IF cmd = "reset" THEN FALSE ELSE loaded

mexFunction(cmd, nlhs, nrhs) ==
  /\ alive
  /\ UNCHANGED <<fwdVars, wtsVars, gradVars>>
  /\ called' = TRUE
  /\ nrhsIn' = nrhs
  /\ IF nrhs = 0
     THEN /\ cmdIn' = ""
          /\ invoked' = <<>>
          /\ mexErrMsgTxt("An API command is requires", {})
          /\ UNCHANGED loaded
     ELSE LET calls == Dispatch(1, cmd, nrhs) IN
          /\ cmdIn' = cmd
          /\ invoked' = calls
          /\ IF calls = <<>>
             THEN /\ mexErrMsgTxt("API command not recognized", {})
                  /\ UNCHANGED loaded
             ELSE /\ Call(calls[1].func, nlhs, calls[1].nrhs)
                  /\ loaded' = LoadedAfter(cmd, nrhs)

\* -------------------------------------------------------------- do_forward
\* A blob is its shape (num, channels, height, width) and count() floats,
\* stored with width the fastest dimension and num the slowest.
Shapes == [num : 1..MaxDim, channels : 1..MaxDim, height : 1..MaxDim,
           width : 1..MaxDim]

count(shape) == shape.num * shape.channels * shape.height * shape.width

\* The place of element (n, c, h, w) in a blob's storage (row-major, from 0).
offset(shape, n, c, h, w) ==
  ((n * shape.channels + c) * shape.height + h) * shape.width + w

\* The place of element idx in a host array of the given dims (column-major,
\* the first index the fastest, from 0).
ColumnMajor(dims, idx) ==
  idx[1] + dims[1] * (idx[2] + dims[2] * (idx[3] + dims[3] * idx[4]))

mxGetNumberOfElements(dims) == dims[1] * dims[2] * dims[3] * dims[4]

\* mxCreateNumericArray(4, dims, mxSINGLE_CLASS, mxREAL): zero-filled.
mxCreateNumericArray(dims) ==
  [dims |-> dims, data |-> [k \in 1..mxGetNumberOfElements(dims) |-> 0]]

\* caffe_copy(n, src, dst): the first n floats of src over the first n of dst.
caffe_copy(n, src, dst) ==
  [k \in 1..Len(dst) |-> IF k <= n THEN src[k] ELSE dst[k]]

\* The contents a buffer of n floats may hold: all different, in two orders.
Contents(n) == { [k \in 1..n |-> k], [k \in 1..n |-> 100 + n - k] }

\* The dims of the arrays a caller passes for a blob of the given shape: the
\* documented [width, height, channels, num], the same with width and height
\* not flipped, the blob's own order, and an array with one column too many.
HostDims(shape) ==
  { <<shape.width, shape.height, shape.channels, shape.num>>,
    <<shape.height, shape.width, shape.channels, shape.num>>,
    <<shape.num, shape.channels, shape.height, shape.width>>,
    <<shape.width + 1, shape.height, shape.channels, shape.num>> }

\* mwSize dims[4] = {width(), height(), channels(), num()} reversed.
OutputDims_nchw(shape) ==
  <<shape.num, shape.channels, shape.height, shape.width>>

\* mwSize dims[4] = {width(), height(), channels(), num()}
OutputDims(shape) ==
  <<shape.width, shape.height, shape.channels, shape.num>>

NoBlob == [shape |-> [num |-> 1, channels |-> 1, height |-> 1, width |-> 1],
           data |-> <<0>>]
NoHost == [dims |-> <<1, 1, 1, 1>>, data |-> <<0>>]

\* do_forward is entered: the network's lists of blobs are read.
ForwardBegin ==
  /\ fPc = "idle"
  /\ \E nIn \in 1..MaxBlobs : fNIn' = nIn
  /\ fNOut' = 0
  /\ fPc' = "inputs"
  /\ fI' = 0
  /\ fBlob' = NoBlob
  /\ fHost' = NoHost
  /\ UNCHANGED <<dispVars, wtsVars, gradVars>>

\* One iteration of the first loop: the cell elem over input_blobs[i]. The
\* blob's shape and the caller's array are whatever the network and the caller
\* hold at index i.
ForwardCopyIn ==
  /\ fPc = "inputs"
  /\ fI < fNIn
  /\ \E shape \in Shapes :
     \E dims \in HostDims(shape) :
       \E data \in Contents(mxGetNumberOfElements(dims)) :
         LET elem == [dims |-> dims, data |-> data]
             old == [k \in 1..count(shape) |-> 0]
         IN /\ fHost' = elem
            /\ IF mxGetNumberOfElements(dims) # count(shape)
               THEN \* CHECK_EQ fails
                    /\ fPc' = "abort"
                    /\ fBlob' = [shape |-> shape, data |-> old]
                    /\ fI' = fI
               ELSE /\ fPc' = "inputs"
                    /\ fBlob' = [shape |-> shape,
                                 data |-> CASE mode = "CPU" ->
                                                 caffe_copy(count(shape), data, old)
                                            [] mode = "GPU" ->
                                                 caffe_copy(count(shape), data, old)]
                    /\ fI' = fI + 1
  /\ UNCHANGED <<fNIn, fNOut>>
  /\ UNCHANGED <<dispVars, wtsVars, gradVars>>

\* output_blobs = net_->ForwardPrefilled()
ForwardPrefilled ==
  /\ fPc = "inputs"
  /\ fI = fNIn
  /\ \E nOut \in 1..MaxBlobs : fNOut' = nOut
  /\ fPc' = "outputs"
  /\ fI' = 0
  /\ UNCHANGED <<fNIn, fBlob, fHost>>
  /\ UNCHANGED <<dispVars, wtsVars, gradVars>>

\* One iteration of the second loop: output_blobs[i], holding what the engine
\* computed, into a new array.
ForwardCopyOut ==
  /\ fPc = "outputs"
  /\ fI < fNOut
  /\ \E shape \in Shapes :
       \E data \in Contents(count(shape)) :
         LET mx_blob == mxCreateNumericArray(OutputDims(shape))
         IN /\ fBlob' = [shape |-> shape, data |-> data]
            /\ fHost' = [dims |-> mx_blob.dims,
                         data |-> CASE mode = "CPU" ->
                                         caffe_copy(count(shape), data, mx_blob.data)
                                    [] mode = "GPU" ->
                                         caffe_copy(count(shape), data, mx_blob.data)]
  /\ fI' = fI + 1
  /\ UNCHANGED <<fPc, fNIn, fNOut>>
  /\ UNCHANGED <<dispVars, wtsVars, gradVars>>

\* return mx_out
ForwardReturn ==
  /\ fPc = "outputs"
  /\ fI = fNOut
  /\ fPc' = "idle"
  /\ UNCHANGED <<fNIn, fNOut, fI, fBlob, fHost>>
  /\ UNCHANGED <<dispVars, wtsVars, gradVars>>

ForwardIdle ==
  /\ fPc = "idle"
  /\ fNIn = 0
  /\ fNOut = 0
  /\ fI = 0
  /\ fBlob = NoBlob
  /\ fHost = NoHost

\* The statics while a handler runs on a loaded network.
Loaded ==
  /\ net_ = "Net"
  /\ init_key = 0
  /\ mode \in {"CPU", "GPU"}
  /\ phase = "TEST"
  /\ device = 0
  /\ alive = TRUE
  /\ cmdIn = "init"
  /\ nrhsIn = 3
  /\ invoked = <<[func |-> "init", nrhs |-> 2]>>
  /\ err = NoErr
  /\ ret = NoRet
  /\ engine = {"Net", "CopyTrainedLayersFrom"}
  /\ called = TRUE
  /\ loaded = TRUE

\* ---------------------------------------------------------- do_get_weights
LayerNames == {"conv1", "fc1"}

Networks ==
  UNION { [1..len -> [name : LayerNames, blobs : 0..MaxLayerBlobs]] :
          len \in 1..MaxLayers }

\* do_get_weights is entered on some network.
WeightsBegin ==
  /\ wPc = "idle"
  /\ \E net \in Networks : layers' = net
  /\ wPc' = "step1"
  /\ wI' = 1
  /\ num_layers' = 0
  /\ prev_layer_name' = ""
  /\ mx_layers' = <<>>
  /\ mx_layer_index' = 0
  /\ wDropped' = {}
  /\ UNCHANGED <<dispVars, fwdVars, gradVars>>

\* Step 1, one iteration: count the layers with weights.
WeightsCount ==
  /\ wPc = "step1"
  /\ wI <= Len(layers)
  /\ IF layers[wI].blobs = 0
     THEN UNCHANGED <<prev_layer_name, num_layers>>
     ELSE IF layers[wI].name # prev_layer_name
          THEN /\ prev_layer_name' = layers[wI].name
               /\ num_layers' = num_layers + 1
          ELSE UNCHANGED <<prev_layer_name, num_layers>>
  /\ wI' = wI + 1
  /\ UNCHANGED <<wPc, layers, mx_layers, mx_layer_index, wDropped>>
  /\ UNCHANGED <<dispVars, fwdVars, gradVars>>

\* Step 2: mxCreateStructArray with num_layers records, fields unset.
WeightsAllocate ==
  /\ wPc = "step1"
  /\ wI > Len(layers)
  /\ mx_layers' = [k \in 1..num_layers |-> [layer_names |-> NULL, weights |-> NULL]]
  /\ wPc' = "step3"
  /\ wI' = 1
  /\ prev_layer_name' = ""
  /\ mx_layer_index' = 0
  /\ UNCHANGED <<layers, num_layers, wDropped>>
  /\ UNCHANGED <<dispVars, fwdVars, gradVars>>

\* The cell array after the inner loop has set its cells 1..blobs to the
\* arrays made from the blobs of layer i.
FilledCells(i, blobs) == [j \in 1..blobs |-> <<i, j>>]

\* Step 3, one iteration of the outer loop with its inner loop. A layer whose
\* name equals prev_layer_name keeps mx_layer_cells NULL, and the inner loop
\* calls mxSetCell on it: the host either crashes or ignores the call.
WeightsCopy ==
  /\ wPc = "step3"
  /\ wI <= Len(layers)
  /\ IF layers[wI].blobs = 0
     THEN /\ wI' = wI + 1
          /\ UNCHANGED <<wPc, prev_layer_name, mx_layers, mx_layer_index, wDropped>>
     ELSE IF layers[wI].name # prev_layer_name
          THEN /\ prev_layer_name' = layers[wI].name
               /\ mx_layers' =
                    [mx_layers EXCEPT ![mx_layer_index + 1] =
                       [layer_names |-> layers[wI].name,
                        weights |-> FilledCells(wI, layers[wI].blobs)]]
               /\ mx_layer_index' = mx_layer_index + 1
               /\ wI' = wI + 1
               /\ UNCHANGED <<wPc, wDropped>>
          ELSE /\ \E outcome \in {"crash", "ignored"} :
                    IF outcome = "crash"
                    THEN /\ wPc' = "crash"
                         /\ wI' = wI
                         /\ wDropped' = wDropped \cup { <<wI, 1>> }
                    ELSE /\ wPc' = wPc
                         /\ wI' = wI + 1
                         /\ wDropped' = wDropped \cup
                              { <<wI, j>> : j \in 1..layers[wI].blobs }
               /\ UNCHANGED <<prev_layer_name, mx_layers, mx_layer_index>>
  /\ UNCHANGED <<layers, num_layers>>
  /\ UNCHANGED <<dispVars, fwdVars, gradVars>>

\* return mx_layers
WeightsReturn ==
  /\ wPc = "step3"
  /\ wI > Len(layers)
  /\ wPc' = "done"
  /\ UNCHANGED <<layers, wI, num_layers, prev_layer_name, mx_layers,
                 mx_layer_index, wDropped>>
  /\ UNCHANGED <<dispVars, fwdVars, gradVars>>

WeightsIdle ==
  /\ wPc = "idle"
  /\ layers = <<>>
  /\ wI = 1
  /\ num_layers = 0
  /\ prev_layer_name = ""
  /\ mx_layers = <<>>
  /\ mx_layer_index = 0
  /\ wDropped = {}

\* -------------------------------------------------------- do_get_gradients
\* int is 32 bits wide; pointers and mwSize / size_t are 64 bits wide. A value
\* that may leave the int range is kept as hi * Base + lo with 0 <= lo < Base.
Base == 2^30
IntMax == Base + (Base - 1)

Wide(x) == [hi |-> x \div Base, lo |-> x % Base]

WAdd(u, v) ==
  [hi |-> u.hi + v.hi + ((u.lo + v.lo) \div Base), lo |-> (u.lo + v.lo) % Base]

\* a * b for a, b >= 0, by doubling.
RECURSIVE WMul(_, _)
WMul(a, b) ==
  IF b = 0
  THEN Wide(0)
  ELSE LET half == WMul(a, b \div 2)
           dbl == WAdd(half, half)
       IN IF b % 2 = 1 THEN WAdd(dbl, Wide(a)) ELSE dbl

WLeq(u, v) == u.hi < v.hi \/ (u.hi = v.hi /\ u.lo <= v.lo)

WMin(u, v) == IF WLeq(u, v) THEN u ELSE v

\* The value is an int.
InInt(u) == u.hi \in {-2, -1, 0, 1}

ToInt(u) == u.hi * Base + u.lo

\* The int that holds the low 32 bits of the value (two's complement).
Wrap32(u) ==
  LET h == u.hi % 4
  IN IF h >= 2 THEN (h - 4) * Base + u.lo ELSE h * Base + u.lo

\* What an int expression whose exact value is u may evaluate to. Signed
\* overflow is undefined: the build either keeps the low 32 bits or carries
\* the exact value in a wider register.
IntResult(u) == IF InInt(u) THEN {u} ELSE {Wide(Wrap32(u)), u}

GradDims == (1..MaxGradDim) \cup {BigDim}

FitsMul(a, b) == a <= IntMax \div b

\* A blob the engine can hold: its count() is an int.
ValidBlob(shape) ==
  /\ FitsMul(shape.width, shape.height)
  /\ FitsMul(shape.width * shape.height, shape.channels)
  /\ FitsMul(shape.width * shape.height * shape.channels, shape.num)

\* output_blobs[i]->width() * height() * channels()
whc(shape) == shape.width * shape.height * shape.channels

\* std::min(count(), width() * height() * channels() * channels_left)
num_to_copy(shape, left) ==
  { ToInt(WMin(Wide(count(shape)), p)) : p \in IntResult(WMul(whc(shape), left)) }

\* std::max(0, channels_left - batch_size)
max0(x) == IF x > 0 THEN x ELSE 0

\* CalcGradientsPrefilled has returned 0 with its list of blobs.
GradientsBegin ==
  /\ gPc = "idle"
  /\ \E w \in GradDims, h \in GradDims, c \in GradDims, k \in 0..MaxOutBlobs :
       \E nums \in [1..k -> 1..MaxBatch] :
         LET blobs == [i \in 1..k |->
                         [num |-> nums[i], channels |-> c, height |-> h, width |-> w]]
         IN /\ \A i \in 1..k : ValidBlob(blobs[i])
            /\ output_blobs' = blobs
  /\ \E b \in 1..MaxBatch : batch_size' = b
  /\ \E n \in 1..MaxChannels :
       /\ nSel' = n
       /\ channels_left' = n
  /\ gPc' = "loop"
  /\ gI' = 0
  /\ mx_out' = NULL
  /\ data_copied' = Wide(0)
  /\ data_ptr' = Wide(0)
  /\ gCopies' = <<>>
  /\ UNCHANGED <<dispVars, fwdVars, wtsVars>>

\* One iteration of the loop over output_blobs.
GradientsCopy ==
  /\ gPc = "loop"
  /\ gI < Len(output_blobs)
  /\ LET blob == output_blobs[gI + 1]
         first == output_blobs[1]
     IN /\ mx_out' = IF gI = 0 THEN WMul(whc(first), nSel) ELSE mx_out
        /\ \E num \in num_to_copy(blob, channels_left) :
             /\ gCopies' = Append(gCopies,
                                  [at |-> data_ptr, len |-> num, left |-> channels_left])
             /\ \E copied \in IntResult(WAdd(data_copied, Wide(num))) :
                  data_copied' = copied
             /\ data_ptr' = WAdd(data_ptr, Wide(num))
             /\ IF num < 0
                THEN \* caffe_copy is given a negative length
                     \E outcome \in {"crash", "nothing"} :
                       gPc' = IF outcome = "crash" THEN "abort" ELSE "loop"
                ELSE gPc' = "loop"
  /\ channels_left' = max0(channels_left - batch_size)
  /\ gI' = gI + 1
  /\ UNCHANGED <<output_blobs, batch_size, nSel>>
  /\ UNCHANGED <<dispVars, fwdVars, wtsVars>>

\* The two CHECK_EQ after the loop. With no blob at all they read
\* output_blobs[0] of an empty vector.
GradientsCheck ==
  /\ gPc = "loop"
  /\ gI = Len(output_blobs)
  /\ IF Len(output_blobs) = 0
     THEN gPc' = "abort"
     ELSE LET expected == WMul(whc(output_blobs[1]), nSel)
          IN gPc' = IF data_copied = expected /\ data_ptr = expected
                    THEN "done"
                    ELSE "abort"
  /\ UNCHANGED <<output_blobs, batch_size, nSel, channels_left, gI, mx_out,
                 data_copied, data_ptr, gCopies>>
  /\ UNCHANGED <<dispVars, fwdVars, wtsVars>>

\* The temporary blobs are deleted and mx_out is returned.
GradientsReturn ==
  /\ gPc = "done"
  /\ gPc' = "idle"
  /\ output_blobs' = <<>>
  /\ batch_size' = 1
  /\ nSel' = 1
  /\ channels_left' = 0
  /\ gI' = 0
  /\ mx_out' = NULL
  /\ data_copied' = Wide(0)
  /\ data_ptr' = Wide(0)
  /\ gCopies' = <<>>
  /\ UNCHANGED <<dispVars, fwdVars, wtsVars>>

GradientsIdle ==
  /\ gPc = "idle"
  /\ output_blobs = <<>>
  /\ batch_size = 1
  /\ nSel = 1
  /\ channels_left = 0
  /\ gI = 0
  /\ mx_out = NULL
  /\ data_copied = Wide(0)
  /\ data_ptr = Wide(0)
  /\ gCopies = <<>>

\* ------------------------------------------------------------ specifications
\* do_forward on a loaded network.
InitForward == Loaded /\ ForwardIdle /\ WeightsIdle /\ GradientsIdle

NextForward ==
  \/ ForwardBegin
  \/ ForwardCopyIn
  \/ ForwardPrefilled
  \/ ForwardCopyOut
  \/ ForwardReturn

SpecForward == InitForward /\ [][NextForward]_vars

\* do_get_weights on a loaded network.
InitWeights == Loaded /\ ForwardIdle /\ WeightsIdle /\ GradientsIdle

NextWeights ==
  \/ WeightsBegin
  \/ WeightsCount
  \/ WeightsAllocate
  \/ WeightsCopy
  \/ WeightsReturn

SpecWeights == InitWeights /\ [][NextWeights]_vars

\* The copy loop of do_get_gradients on a loaded network.
InitGradients == Loaded /\ ForwardIdle /\ WeightsIdle /\ GradientsIdle

NextGradients ==
  \/ GradientsBegin
  \/ GradientsCopy
  \/ GradientsCheck
  \/ GradientsReturn

SpecGradients == InitGradients /\ [][NextGradients]_vars

\* The command interface, from the freshly loaded mex file.
Init ==
  /\ ForwardIdle
  /\ WeightsIdle
  /\ GradientsIdle
  /\ net_ = NULL
  /\ init_key = NoInitKey
  /\ mode \in {"CPU", "GPU"}
  /\ phase \in {"TRAIN", "TEST"}
  /\ device = 0
  /\ alive = TRUE
  /\ cmdIn = ""
  /\ nrhsIn = 0
  /\ invoked = <<>>
  /\ err = NoErr
  /\ ret = NoRet
  /\ engine = {}
  /\ called = FALSE
  /\ loaded = FALSE

\* One disjunct for the call without arguments, one per registered command,
\* one for the names no entry holds.
Next ==
  \/ \E nlhs \in 0..1 : mexFunction("", nlhs, 0)
  \/ \E nlhs \in 0..1, nrhs \in 1..MaxArgs : mexFunction("forward", nlhs, nrhs)
  \/ \E nlhs \in 0..1, nrhs \in 1..MaxArgs : mexFunction("backward", nlhs, nrhs)
  \/ \E nlhs \in 0..1, nrhs \in 1..MaxArgs : mexFunction("get_gradients", nlhs, nrhs)
  \/ \E nlhs \in 0..1, nrhs \in 1..MaxArgs : mexFunction("get_features", nlhs, nrhs)
  \/ \E nlhs \in 0..1, nrhs \in 1..MaxArgs : mexFunction("init", nlhs, nrhs)
  \/ \E nlhs \in 0..1, nrhs \in 1..MaxArgs : mexFunction("is_initialized", nlhs, nrhs)
  \/ \E nlhs \in 0..1, nrhs \in 1..MaxArgs : mexFunction("set_mode_cpu", nlhs, nrhs)
  \/ \E nlhs \in 0..1, nrhs \in 1..MaxArgs : mexFunction("set_mode_gpu", nlhs, nrhs)
  \/ \E nlhs \in 0..1, nrhs \in 1..MaxArgs : mexFunction("set_phase_train", nlhs, nrhs)
  \/ \E nlhs \in 0..1, nrhs \in 1..MaxArgs : mexFunction("set_phase_test", nlhs, nrhs)
  \/ \E nlhs \in 0..1, nrhs \in 1..MaxArgs : mexFunction("set_device", nlhs, nrhs)
  \/ \E nlhs \in 0..1, nrhs \in 1..MaxArgs : mexFunction("get_weights", nlhs, nrhs)
  \/ \E nlhs \in 0..1, nrhs \in 1..MaxArgs : mexFunction("get_blobs", nlhs, nrhs)
  \/ \E nlhs \in 0..1, nrhs \in 1..MaxArgs : mexFunction("get_init_key", nlhs, nrhs)
  \/ \E nlhs \in 0..1, nrhs \in 1..MaxArgs : mexFunction("reset", nlhs, nrhs)
  \/ \E nlhs \in 0..1, nrhs \in 1..MaxArgs : mexFunction("read_mean", nlhs, nrhs)
  \/ \E cmd \in CommandNames \ RegisteredNames, nlhs \in 0..1, nrhs \in 1..MaxArgs :
       mexFunction(cmd, nlhs, nrhs)

Spec == Init /\ [][Next]_vars

\* ------------------------------------------------------------------ claims
\* The sixteen command names of the public API.
ApiNames ==
  {"forward", "backward", "get_gradients", "get_features", "init",
   "is_initialized", "set_mode_cpu", "set_mode_gpu", "set_phase_train",
   "set_phase_test", "set_device", "get_weights", "get_blobs", "get_init_key",
   "reset", "read_mean"}

WrongArgs == "Wrong number of arguments"

\* C1: a call whose first argument is one of the sixteen registered names
\* invokes exactly one handler, the one registered under that name, exactly
\* once, and hands it nrhs-1 arguments.
C1_DispatchOnce ==
  (called /\ nrhsIn > 0 /\ cmdIn \in ApiNames)
    => invoked = <<[func |-> cmdIn, nrhs |-> nrhsIn - 1]>>

C1_Witness ==
  /\ called /\ cmdIn = "get_gradients" /\ nrhsIn = 4
  /\ invoked = <<[func |-> "get_gradients", nrhs |-> 3]>>
  /\ err # WrongArgs

\* C2: a call without arguments raises 'An API command is requires', a call
\* with a name that is not registered (the sentinel END included) raises 'API
\* command not recognized'; neither invokes a handler nor changes the network,
\* init_key, mode or phase.
C2_Rejected ==
  /\ [](called /\ nrhsIn = 0
          => err = "An API command is requires" /\ invoked = <<>>)
  /\ [](called /\ nrhsIn > 0 /\ cmdIn \notin ApiNames
          => err = "API command not recognized" /\ invoked = <<>>)
  /\ [][(nrhsIn' = 0 \/ cmdIn' \notin ApiNames)
          => UNCHANGED <<net_, init_key, mode, phase>>]_vars

C2_Witness ==
  /\ called /\ cmdIn = "END" /\ nrhsIn = 3 /\ net_ # NULL
  /\ err = "API command not recognized"

\* C3: is_initialized returns 1 exactly when an init with two arguments has
\* completed and no reset was executed after the most recent one, else 0.
C3_IsInitialized ==
  (called /\ alive /\ nrhsIn > 0 /\ cmdIn = "is_initialized")
    => ret = (IF loaded THEN 1 ELSE 0)

C3_Witness ==
  called /\ cmdIn = "is_initialized" /\ ret = 1 /\ loaded

\* C4: get_gradients with 3 arguments and get_features with 2, issued while no
\* network is loaded, raise 'Initialize caffe first by calling matcaffe_init.'
\* and touch neither the network nor the engine.
C4_NotLoaded ==
  (/\ called /\ net_ = NULL
   /\ \/ cmdIn = "get_gradients" /\ nrhsIn = 4
      \/ cmdIn = "get_features" /\ nrhsIn = 3)
    => /\ err = "Initialize caffe first by calling matcaffe_init."
       /\ engine = {}
       /\ ret = NoRet
       /\ alive

C4_Witness ==
  /\ called /\ net_ = NULL /\ cmdIn = "get_gradients" /\ nrhsIn = 4
  /\ err = "Initialize caffe first by calling matcaffe_init."
  /\ init_key = NoInitKey /\ ~loaded

\* The argument count each fixed-arity handler requires.
Arity(cmd) ==
  CASE cmd = "init" -> 2
    [] cmd \in {"forward", "backward", "set_device"} -> 1
    [] cmd = "get_features" -> 2
    [] cmd = "get_gradients" -> 3

FixedArity == {"init", "forward", "backward", "set_device", "get_features",
               "get_gradients"}

\* C5: a fixed-arity handler given any other argument count raises 'Wrong
\* number of arguments' (and only then), with no engine operation and the
\* network, init_key, mode, phase and device unchanged.
C5_WrongArgs ==
  /\ [](called /\ nrhsIn > 0 /\ cmdIn \in FixedArity
          => /\ (err = WrongArgs) <=> (nrhsIn - 1 # Arity(cmdIn))
             /\ err = WrongArgs => engine = {} /\ ret = NoRet /\ alive)
  /\ [][(nrhsIn' > 0 /\ cmdIn' \in FixedArity /\ nrhsIn' - 1 # Arity(cmdIn'))
          => UNCHANGED <<net_, init_key, mode, phase, device>>]_vars

C5_Witness ==
  /\ called /\ cmdIn = "init" /\ nrhsIn = 4 /\ err = WrongArgs
  /\ net_ # NULL

\* Element (w, h, c, n) of a host array, read column-major.
HostAt(arr, w, h, c, n) == arr.data[ColumnMajor(arr.dims, <<w, h, c, n>>) + 1]

\* Element (n, c, h, w) of a blob.
BlobAt(blob, n, c, h, w) == blob.data[offset(blob.shape, n, c, h, w) + 1]

SameElements(arr, blob) ==
  \A w \in 0..(blob.shape.width - 1), h \in 0..(blob.shape.height - 1),
     c \in 0..(blob.shape.channels - 1), n \in 0..(blob.shape.num - 1) :
    HostAt(arr, w, h, c, n) = BlobAt(blob, n, c, h, w)

\* C6: an output blob of shape (num, channels, height, width) is returned as an
\* array of dims [width, height, channels, num] whose element (w, h, c, n) is
\* the blob's element (n, c, h, w); an input array of those dims is stored so
\* that its element (w, h, c, n) is the input blob's element (n, c, h, w).
C6_Layout ==
  /\ (fPc \in {"outputs", "idle"} /\ fI > 0)
       => /\ fHost.dims = <<fBlob.shape.width, fBlob.shape.height,
                            fBlob.shape.channels, fBlob.shape.num>>
          /\ SameElements(fHost, fBlob)
  /\ (fPc = "inputs" /\ fI > 0
        /\ fHost.dims = <<fBlob.shape.width, fBlob.shape.height,
                          fBlob.shape.channels, fBlob.shape.num>>)
       => SameElements(fHost, fBlob)

C6_Witness ==
  /\ fPc = "outputs" /\ fI > 0
  /\ fBlob.shape = [num |-> 2, channels |-> 1, height |-> 2, width |-> 1]
  /\ fHost.dims = <<1, 2, 1, 2>>
  /\ HostAt(fHost, 0, 1, 0, 0) = BlobAt(fBlob, 0, 0, 1, 0)
  /\ HostAt(fHost, 0, 1, 0, 0) # HostAt(fHost, 0, 0, 0, 1)

\* The indices of the layers that have at least one parameter blob, in
\* network order.
RECURSIVE WeightLayers(_)
WeightLayers(i) ==
  IF i > Len(layers)
  THEN <<>>
  ELSE IF layers[i].blobs > 0
       THEN <<i>> \o WeightLayers(i + 1)
       ELSE WeightLayers(i + 1)

\* C7: get_weights returns one record per layer that has a parameter blob, in
\* network order, holding the layer's name and a cell per parameter blob; the
\* records filled in step 3 are as many as step 1 allocated, and every
\* parameter blob of those layers is written into the cell array of a record.
C7_OneRecordPerLayer ==
  /\ wPc # "crash"
  /\ wPc = "done" =>
       LET wl == WeightLayers(1) IN
       /\ Len(mx_layers) = Len(wl)
       /\ mx_layer_index = num_layers
       /\ \A k \in 1..Len(mx_layers) :
            /\ k <= Len(wl)
            /\ mx_layers[k].layer_names = layers[wl[k]].name
            /\ mx_layers[k].weights = FilledCells(wl[k], layers[wl[k]].blobs)
       /\ wDropped = {}

\* The engine's result meets the claim's premise: at least one blob, all of
\* one width, height and channels, each of num batch_size, enough for the
\* selected channels.
GradientsPremise ==
  /\ gPc # "idle"
  /\ Len(output_blobs) >= 1
  /\ \A i \in 1..Len(output_blobs) :
       /\ output_blobs[i].num = batch_size
       /\ whc(output_blobs[i]) = whc(output_blobs[1])
  /\ Len(output_blobs) * batch_size >= nSel

\* The lengths of the first j copies, added up.
RECURSIVE Copied(_)
Copied(j) == IF j = 0 THEN Wide(0) ELSE WAdd(Copied(j - 1), Wide(gCopies[j].len))

GradientsExact ==
  /\ gPc # "abort"
  /\ \A j \in 1..Len(gCopies) :
       /\ gCopies[j].left = max0(nSel - (j - 1) * batch_size)
       /\ Wide(gCopies[j].len) =
            WMin(Wide(count(output_blobs[j])),
                 WMul(whc(output_blobs[j]), gCopies[j].left))
       /\ gCopies[j].at = Copied(j - 1)
       /\ WLeq(Copied(j), WMul(whc(output_blobs[1]), nSel))
  /\ channels_left >= 0
  /\ gPc = "done" =>
       /\ Copied(Len(gCopies)) = WMul(whc(output_blobs[1]), nSel)
       /\ data_copied = WMul(whc(output_blobs[1]), nSel)
       /\ data_ptr = WMul(whc(output_blobs[1]), nSel)

\* C8: under the premise the loop copies W*H*C*n elements, blob after blob
\* without a gap and never past the end of the output array, each blob giving
\* min(count, W*H*C*channels_left) with channels_left going down by batch_size
\* and never below 0, and both CHECK_EQ hold.
C8_CopyLoop ==
  GradientsPremise => GradientsExact

\* The same, for the sizes whose W*H*C*n is an int.
GradientsWithinInt ==
  (GradientsPremise /\ InInt(WMul(whc(output_blobs[1]), nSel))) => GradientsExact

GradientsWithinIntReached ==
  /\ GradientsPremise /\ gPc = "done" /\ Len(gCopies) = 3 /\ nSel = 3
  /\ whc(output_blobs[1]) = 4

====
